---- MODULE Spec2Model ----
(***************************************************************************)
(* Model of src/src/setup/verifier.hpp: the same-ratio pairing argument    *)
(* used to validate a powers-of-x transcript.                              *)
(*                                                                         *)
(* Group elements of G1 and G2 are represented by their discrete logarithm *)
(* with respect to the group generator (G::one() has logarithm 1,          *)
(* G::zero() has logarithm 0); elements of GT by their logarithm with      *)
(* respect to e(G1::one(), G2::one()), so that GT::one() is 0 and the      *)
(* product in GT is the sum of logarithms.  All logarithms live in the     *)
(* scalar field of prime order FieldOrder.                                 *)
(***************************************************************************)
EXTENDS Integers, Sequences, FiniteSets, TLC

\* ------------------------------------------------------------------ bounds
PrimeOrders == <<5, 7, 11, 13>>
FieldChoice == 1
FieldOrder == PrimeOrders[FieldChoice]
MaxDegree == 3

Field == 0 .. (FieldOrder - 1)
GroupKinds == {"G1", "G2"}

\* ------------------------------------------------- field / group arithmetic
Add(a, b) == (a + b) % FieldOrder
Mul(a, b) == (a * b) % FieldOrder

\* FieldT::sqr() as used by the code: scalar_multiplier.sqr()
Sqr(x) == Mul(x, x)

\* GroupT::zero() and GroupT::one()
GroupZero == 0
GroupOne == 1

\* size_t arithmetic: polynomial_degree - 1 wraps around for degree 0.  The
\* width is cut to 30 bits because the model checker's integers have 32.
SizeModulus == 2 ^ 30
DegreeMinusOne(polynomial_degree) == (polynomial_degree - 1) % SizeModulus

\* g1_points[i] with the 0-based index of the code
At(points, i) == points[i + 1]

\* the largest index same_ratio_preprocess reads is polynomial_degree - 1
\* (line 39); every other index it reads is smaller.
ReadsOutOfBounds(points, polynomial_degree) ==
    DegreeMinusOne(polynomial_degree) >= Len(points)

\* ------------------------------------------------------ same_ratio_preprocess
\* the for loop of lines 32..36, carrying the trace of the multiplier updates
RECURSIVE AccumulateLoop(_, _, _, _, _, _)
AccumulateLoop(g1_points, bound, i, scalar_multiplier, accumulator, trace) ==
    IF i < bound
    THEN LET m == Sqr(scalar_multiplier)
         IN AccumulateLoop(g1_points, bound, i + 1, m,
                           Add(accumulator, Mul(At(g1_points, i), m)),
                           Append(trace, m))
    ELSE [scalar_multiplier |-> scalar_multiplier,
          accumulator |-> accumulator,
          trace |-> trace,
          iterations |-> i - 1]

SameRatioPreprocess(g1_points, polynomial_degree, challenge) ==
    LET loop == AccumulateLoop(g1_points, DegreeMinusOne(polynomial_degree), 1,
                               challenge, GroupZero, <<>>)
        final == Sqr(loop.scalar_multiplier)
    IN [rhs |-> Add(loop.accumulator,
                    Mul(At(g1_points, DegreeMinusOne(polynomial_degree)), final)),
        lhs |-> Add(loop.accumulator, Mul(At(g1_points, 0), challenge)),
        updates |-> Append(loop.trace, final),
        iterations |-> loop.iterations]

\* ------------------------------------------------------------------ same_ratio
\* e(P, Q) for P = p*G1::one(), Q = q*G2::one(), as a logarithm in GT
Pairing(p, q) == Mul(p, q)
GTOne == 0

\* ppT::double_miller_loop followed by final_exponentiation:
\* e(P1, Q1) * e(P2, Q2)
DoubleMillerLoop(p1, q1, p2, q2) == Add(Pairing(p1, q1), Pairing(p2, q2))

\* line 54 passes g1_rhs in both operand positions of the second pairing, so
\* g2_key.rhs is not used; the G1 operand in the G2 position is taken by its
\* logarithm.  No operand is negated: the product of the two pairings is
\* compared with GT::one().
SameRatio(g1_key, g2_key) ==
    DoubleMillerLoop(g1_key.lhs, g2_key.lhs, g1_key.rhs, g1_key.rhs) = GTOne

\* ------------------------------------------- validate_polynomial_evaluation
\* sizeof of a group element in units of one base-field coordinate: G1 has
\* three Fq coordinates, G2 three Fq2 coordinates
SizeOf(kind) == IF kind = "G1" THEN 3 ELSE 6
OtherKind(kind) == IF kind = "G1" THEN "G2" ELSE "G1"

\* bool constexpr wibble = sizeof(Group2T) > sizeof(Group1T)
Wibble(Group1T, Group2T) == SizeOf(Group2T) > SizeOf(Group1T)

\* delta.lhs = comparator; delta.rhs = Group1T::one() (logarithm 1 in either group)
DeltaZeroRhs(comparator) == [lhs |-> comparator, rhs |-> GroupZero]
Delta(comparator) == [lhs |-> comparator, rhs |-> GroupOne]

\* result &= check
AndAssignOverwrite(result, check) == check
AndAssign(result, check) == result /\ check

\* lines 79..87, given the key that same_ratio_preprocess built
RatioOfKeys(Group1T, key, delta) ==
    IF Wibble(Group1T, OtherKind(Group1T))
    THEN SameRatio(key, delta)
    ELSE SameRatio(delta, key)

\* the whole function for a fixed draw of the challenge
ValidatePolynomialEvaluation(Group1T, evaluation, comparator, polynomial_degree, challenge) ==
    RatioOfKeys(Group1T,
                SameRatioPreprocess(evaluation, polynomial_degree, challenge),
                Delta(comparator))

\* ------------------------------------------------------------------- inputs
RECURSIVE Pow(_, _)
Pow(x, n) == IF n = 0 THEN 1 ELSE Mul(x, Pow(x, n - 1))

\* [c*s, c*s^2, ..., c*s^n] : the sequence the comments call [x, x^2, ..., x^n]
PowerSeq(c, s, n) == [i \in 1 .. n |-> Mul(c, Pow(s, i))]

\* an honest sequence with exactly one element replaced by a different one
TamperedSeqs(s, n) ==
    { [PowerSeq(1, s, n) EXCEPT ![j] = t] :
        j \in 1 .. n, t \in Field } \ { PowerSeq(1, s, n) }

NoKey == [lhs |-> 0, rhs |-> 0]
NoPre == [lhs |-> 0, rhs |-> 0, updates |-> <<>>, iterations |-> 0]

\* -------------------------------------------------------------------- state
VARIABLES
    pc,                 \* position of the call in progress
    entry,              \* the function called from outside
    polynomial_degree,
    g1_x, g1_alpha_x, g2_x, g2_alpha_x,   \* the transcript
    stage,              \* which of the five checks of validate_transcript
    evaluation, comparator, evalKind,     \* arguments of validate_polynomial_evaluation
    challenge,          \* FieldT::random_element() of the running preprocess
    pre,                \* what same_ratio_preprocess computed
    g1_key, g2_key,     \* arguments of a direct same_ratio call
    ret,                \* value returned by the last check
    result,             \* bool result of validate_transcript
    checks,             \* values returned by the checks evaluated so far
    oob                 \* an index outside a sequence has been read

vars == <<pc, entry, polynomial_degree, g1_x, g1_alpha_x, g2_x, g2_alpha_x,
          stage, evaluation, comparator, evalKind, challenge, pre,
          g1_key, g2_key, ret, result, checks, oob>>

transcript == <<g1_x, g1_alpha_x, g2_x, g2_alpha_x>>

Init ==
    /\ pc = "idle"
    /\ entry = "none"
    /\ polynomial_degree = 0
    /\ g1_x = <<>> /\ g1_alpha_x = <<>> /\ g2_x = <<>> /\ g2_alpha_x = <<>>
    /\ stage = 0
    /\ evaluation = <<>> /\ comparator = 0 /\ evalKind = "G1"
    /\ challenge = 0
    /\ pre = NoPre
    /\ g1_key = NoKey /\ g2_key = NoKey
    /\ ret = FALSE
    /\ result = FALSE
    /\ checks = <<>>
    /\ oob = FALSE

\* ------------------------------------------------------------------ actions
\* a direct call of same_ratio with four arbitrary operands
CallSameRatio ==
    /\ pc = "idle"
    /\ \E l1 \in Field, r1 \in Field, l2 \in Field, r2 \in Field :
          /\ g1_key' = [lhs |-> l1, rhs |-> r1]
          /\ g2_key' = [lhs |-> l2, rhs |-> r2]
          /\ ret' = SameRatio([lhs |-> l1, rhs |-> r1], [lhs |-> l2, rhs |-> r2])
    /\ entry' = "same_ratio"
    /\ pc' = "done"
    /\ UNCHANGED <<polynomial_degree, transcript, stage, evaluation, comparator,
                   evalKind, challenge, pre, result, checks, oob>>

\* a call of validate_polynomial_evaluation on an honest or a tampered sequence
CallValidatePolynomialEvaluation ==
    /\ pc = "idle"
    /\ \E n \in 0 .. MaxDegree, s \in Field, kind \in GroupKinds :
          /\ polynomial_degree' = n
          /\ evaluation' \in {PowerSeq(1, s, n)} \cup TamperedSeqs(s, n)
          /\ comparator' = s
          /\ evalKind' = kind
    /\ entry' = "validate_polynomial_evaluation"
    /\ pc' = "preprocess"
    /\ UNCHANGED <<transcript, stage, challenge, pre, g1_key, g2_key, ret,
                   result, checks, oob>>

\* same_ratio_preprocess, all indices inside the sequence
Preprocess ==
    /\ pc = "preprocess"
    /\ ~ReadsOutOfBounds(evaluation, polynomial_degree)
    /\ \E z \in Field :
          /\ challenge' = z
          /\ pre' = SameRatioPreprocess(evaluation, polynomial_degree, z)
    /\ pc' = "ratio"
    /\ UNCHANGED <<entry, polynomial_degree, transcript, stage, evaluation,
                   comparator, evalKind, g1_key, g2_key, ret, result, checks, oob>>

\* same_ratio_preprocess reading past the end of the sequence: the values read
\* are arbitrary, or the read faults
PreprocessOutOfBounds ==
    /\ pc = "preprocess"
    /\ ReadsOutOfBounds(evaluation, polynomial_degree)
    /\ oob' = TRUE
    /\ \/ /\ pc' = "crashed"
          /\ UNCHANGED <<challenge, pre>>
       \/ /\ pc' = "ratio"
          /\ \E z \in Field, l \in Field, r \in Field :
                /\ challenge' = z
                /\ pre' = [lhs |-> l, rhs |-> r, updates |-> <<>>, iterations |-> 0]
    /\ UNCHANGED <<entry, polynomial_degree, transcript, stage, evaluation,
                   comparator, evalKind, g1_key, g2_key, ret, result, checks>>

\* lines 79..87 of validate_polynomial_evaluation: the same_ratio call and the
\* return; under validate_transcript the caller's `result &= ...` follows and
\* the callee's locals are gone
Ratio ==
    /\ pc = "ratio"
    /\ ret' = RatioOfKeys(evalKind, pre, Delta(comparator))
    /\ IF entry = "validate_transcript"
       THEN /\ result' = AndAssign(result, ret')
            /\ checks' = Append(checks, ret')
            /\ stage' = stage + 1
            /\ pc' = "check"
            /\ evaluation' = <<>> /\ comparator' = 0 /\ evalKind' = "G1"
            /\ challenge' = 0 /\ pre' = NoPre
       ELSE /\ pc' = "done"
            /\ UNCHANGED <<result, checks, stage, evaluation, comparator,
                           evalKind, challenge, pre>>
    /\ UNCHANGED <<entry, polynomial_degree, transcript, g1_key, g2_key, oob>>

\* a call of validate_transcript: secret s, shift a1 in g1_alpha_x and shift a2
\* in g2_alpha_x (the transcript is honest when a1 = a2); bool result = true
CallValidateTranscript ==
    /\ pc = "idle"
    /\ \E n \in 0 .. MaxDegree, s \in Field, a1 \in Field, a2 \in Field :
          /\ polynomial_degree' = n
          /\ g1_x' = PowerSeq(1, s, n)
          /\ g1_alpha_x' = PowerSeq(a1, s, n)
          /\ g2_x' = PowerSeq(1, s, n)
          /\ g2_alpha_x' = PowerSeq(a2, s, n)
    /\ entry' = "validate_transcript"
    /\ result' = TRUE
    /\ checks' = <<>>
    /\ stage' = 1
    /\ pc' = "check"
    /\ UNCHANGED <<evaluation, comparator, evalKind, challenge, pre,
                   g1_key, g2_key, ret, oob>>

\* the sequence, the anchor sequence and Group1T of the k-th call of
\* validate_polynomial_evaluation in validate_transcript (lines 99..108)
CheckArgs(k) ==
    CASE k = 1 -> [evaluation |-> g1_x,       anchor |-> g2_x, kind |-> "G1"]
      [] k = 2 -> [evaluation |-> g1_alpha_x, anchor |-> g2_x, kind |-> "G1"]
      [] k = 3 -> [evaluation |-> g2_x,       anchor |-> g1_x, kind |-> "G2"]
      [] k = 4 -> [evaluation |-> g2_alpha_x, anchor |-> g1_x, kind |-> "G2"]

\* the call of validate_polynomial_evaluation of check `stage`: anchor[0] is read
StartCheck ==
    /\ pc = "check"
    /\ stage \in 1 .. 4
    /\ Len(CheckArgs(stage).anchor) > 0
    /\ evaluation' = CheckArgs(stage).evaluation
    /\ comparator' = At(CheckArgs(stage).anchor, 0)
    /\ evalKind' = CheckArgs(stage).kind
    /\ pc' = "preprocess"
    /\ UNCHANGED <<entry, polynomial_degree, transcript, stage, challenge, pre,
                   g1_key, g2_key, ret, result, checks, oob>>

\* the same with an empty anchor sequence: anchor[0] is past the end, the value
\* read is arbitrary or the read faults
StartCheckOutOfBounds ==
    /\ pc = "check"
    /\ stage \in 1 .. 4
    /\ Len(CheckArgs(stage).anchor) = 0
    /\ oob' = TRUE
    /\ \/ /\ pc' = "crashed"
          /\ UNCHANGED <<evaluation, comparator, evalKind>>
       \/ /\ pc' = "preprocess"
          /\ evaluation' = CheckArgs(stage).evaluation
          /\ comparator' \in Field
          /\ evalKind' = CheckArgs(stage).kind
    /\ UNCHANGED <<entry, polynomial_degree, transcript, stage, challenge, pre,
                   g1_key, g2_key, ret, result, checks>>

\* lines 111..122: the cross-consistency same_ratio call and the return
CrossCheck ==
    /\ pc = "check"
    /\ stage = 5
    /\ Len(g1_x) > 0
    /\ ret' = SameRatio([lhs |-> At(g1_x, 0), rhs |-> At(g1_alpha_x, 0)],
                        [lhs |-> At(g2_alpha_x, 0), rhs |-> At(g2_x, 0)])
    /\ result' = AndAssign(result, ret')
    /\ checks' = Append(checks, ret')
    /\ pc' = "done"
    /\ UNCHANGED <<entry, polynomial_degree, transcript, stage, evaluation,
                   comparator, evalKind, challenge, pre, g1_key, g2_key, oob>>

\* the same with empty sequences: the four elements read are arbitrary, or a
\* read faults
CrossCheckOutOfBounds ==
    /\ pc = "check"
    /\ stage = 5
    /\ Len(g1_x) = 0
    /\ oob' = TRUE
    /\ \/ /\ pc' = "crashed"
          /\ UNCHANGED <<ret, result, checks>>
       \/ /\ pc' = "done"
          /\ \E l1 \in Field, r1 \in Field, l2 \in Field, r2 \in Field :
                ret' = SameRatio([lhs |-> l1, rhs |-> r1], [lhs |-> l2, rhs |-> r2])
          /\ result' = AndAssign(result, ret')
          /\ checks' = Append(checks, ret')
    /\ UNCHANGED <<entry, polynomial_degree, transcript, stage, evaluation,
                   comparator, evalKind, challenge, pre, g1_key, g2_key>>

Next ==
    \/ CallSameRatio
    \/ CallValidatePolynomialEvaluation
    \/ CallValidateTranscript
    \/ Preprocess
    \/ PreprocessOutOfBounds
    \/ Ratio
    \/ StartCheck
    \/ StartCheckOutOfBounds
    \/ CrossCheck
    \/ CrossCheckOutOfBounds

Spec == Init /\ [][Next]_vars

\* =================================================================== claims
InVPE == entry = "validate_polynomial_evaluation"
InVT == entry = "validate_transcript"

\* the evaluation is the honest sequence of the secret the comparator holds
HonestEvaluation == evaluation = PowerSeq(1, comparator, polynomial_degree)
TamperedEvaluation == evaluation \in TamperedSeqs(comparator, polynomial_degree)

\* the documented relation of same_ratio (comment of line 43)
SameRatioDoc(k1, k2) == Pairing(k1.lhs, k2.lhs) = Pairing(k1.rhs, k2.rhs)

\* sum over i = lo..hi of z^i * points[i + shift] (0-based index)
RECURSIVE DocSum(_, _, _, _, _)
DocSum(points, z, shift, lo, hi) ==
    IF lo > hi THEN 0
    ELSE Add(Mul(Pow(z, lo), At(points, lo + shift)),
             DocSum(points, z, shift, lo + 1, hi))

\* C1: a finished call of validate_polynomial_evaluation on an honest power
\* sequence of degree >= 2 with the honest comparator has returned true,
\* whatever challenge was drawn.
C1_Completeness ==
    (pc = "done" /\ InVPE /\ polynomial_degree >= 2 /\ HonestEvaluation)
        => ret = TRUE

C3_SameRatioIffPairingsEqual ==
    (pc = "done" /\ entry = "same_ratio")
        => (ret <=> SameRatioDoc(g1_key, g2_key))

\* the transcript is built from secret s with shift a1 in G1 and a2 in G2
BuiltFrom(s, a1, a2) ==
    /\ g1_x = PowerSeq(1, s, polynomial_degree)
    /\ g1_alpha_x = PowerSeq(a1, s, polynomial_degree)
    /\ g2_x = PowerSeq(1, s, polynomial_degree)
    /\ g2_alpha_x = PowerSeq(a2, s, polynomial_degree)

\* C4: a finished call of validate_transcript on an honest transcript of degree
\* >= 2 has returned true, whatever the challenges drawn.
C4_TranscriptCompleteness ==
    (pc = "done" /\ InVT /\ polynomial_degree >= 2
       /\ \E s \in Field, a \in Field : BuiltFrom(s, a, a))
        => result = TRUE

\* C5: on a transcript whose g1_alpha_x uses a shift different from that of
\* g2_alpha_x (nonzero secret), validate_transcript returns false because the
\* cross-consistency check fails, while the power-sequence checks of g1_x, g2_x
\* and g2_alpha_x pass.
C5_AlphaShiftDetectedByCrossCheck ==
    (pc = "done" /\ InVT /\ ~oob /\ polynomial_degree >= 2
       /\ \E s \in Field \ {0}, a1 \in Field, a2 \in Field :
             a1 # a2 /\ BuiltFrom(s, a1, a2))
        => /\ result = FALSE
           /\ checks[5] = FALSE
           /\ Pairing(At(g1_x, 0), At(g2_alpha_x, 0))
                 # Pairing(At(g1_alpha_x, 0), At(g2_x, 0))
           /\ checks[1] /\ checks[3] /\ checks[4]

\* C6: when validate_transcript returns, all five checks have been evaluated,
\* also after an earlier one failed, and the value returned is the conjunction
\* of the five values the checks returned.
C6_AllFiveChecksNoShortCircuit ==
    (pc = "done" /\ InVT)
        => /\ Len(checks) = 5
           /\ result = (\A k \in 1 .. 5 : checks[k])

\* the first check failed, the last one was still evaluated and passed
C6_Witness ==
    /\ pc = "done" /\ InVT /\ ~oob /\ polynomial_degree >= 2
    /\ Len(checks) = 5 /\ checks[1] = FALSE /\ checks[5] = TRUE
    /\ result = FALSE

\* C7: a call with degree 0 or 1 is rejected before anything is computed: it
\* does not get past its entry, returns no boolean and reads no index outside
\* a sequence.
C7_DegenerateDegreeRejected ==
    ((InVPE \/ InVT) /\ polynomial_degree < 2)
        => /\ ~oob
           /\ pc \notin {"ratio", "done"}
           /\ checks = <<>>

\* C8: at degree 2 the accumulation loop runs zero times, an honest pair is
\* accepted under every challenge and a pair with one element replaced is
\* rejected (nonzero secret and challenge).
C8_BoundaryDegreeTwo ==
    (pc = "done" /\ InVPE /\ polynomial_degree = 2)
        => /\ pre.iterations = 0
           /\ HonestEvaluation => ret = TRUE
           /\ (TamperedEvaluation /\ comparator # 0 /\ challenge # 0)
                 => ret = FALSE

\* C9: for an honest power sequence of secret s and degree >= 2 the key built by
\* same_ratio_preprocess satisfies key.rhs = s * key.lhs.
C9_KeyRatioIsSecret ==
    (pc = "ratio" /\ InVPE /\ polynomial_degree >= 2 /\ HonestEvaluation)
        => pre.rhs = Mul(comparator, pre.lhs)

\* C10: the k-th update of the running multiplier yields z^(k+1), and
\* key.lhs = sum_{i=1..n-1} z^i seq[i-1], key.rhs = sum_{i=1..n-1} z^i seq[i].
C10_LinearPowersOfChallenge ==
    (pc = "ratio" /\ InVPE /\ polynomial_degree >= 2)
        => /\ \A k \in 1 .. Len(pre.updates) :
                 pre.updates[k] = Pow(challenge, k + 1)
           /\ pre.lhs = DocSum(evaluation, challenge, -1, 1, polynomial_degree - 1)
           /\ pre.rhs = DocSum(evaluation, challenge, 0, 1, polynomial_degree - 1)
====
